---------------------------- MODULE Spec2Model ----------------------------
(***************************************************************************)
(* Signal-propagation kernel of rust-c64: Pin, Trace and the Device        *)
(* contract (src/src/components/pin.rs, trace.rs, device.rs).              *)
(*                                                                         *)
(* Levels are Option<f64>.  An Option is modelled as a set with at most    *)
(* one element: None is {} and Some(v) is {v}.  Values are in hundredths   *)
(* (1.0 is 100, 0.5 is 50).                                                *)
(*                                                                         *)
(* Every public call is one action.  The nested, synchronous chain         *)
(* Pin -> Trace -> Pin -> Device::update -> Pin -> Trace ... is computed   *)
(* by recursive operators over a record k (the heap during the call),      *)
(* which also carries the RefCell borrow flags: bpin, btrace and bdev are  *)
(* the pins, traces and devices that are mutably borrowed further up the   *)
(* call stack.  A failed borrow()/borrow_mut() is a panic: it sets         *)
(* k.panicked and the call never returns.                                  *)
(***************************************************************************)
EXTENDS Integers, Sequences, FiniteSets, TLC

\* ------------------------------------------------------------------------
\* Values

\* Number of distinct defined levels the harness hands to set_level.
NumLevels == 2

\* pull_up sets float to Some(1.0), pull_down to Some(0.0).
PullUpLevel == 100
PullDownLevel == 0

None == {}
Some(v) == {v}

\* The defined levels used as arguments: 0.0 .. 1.0 in NumLevels steps.
Levels == {(i * PullUpLevel) \div (NumLevels - 1) : i \in 0..(NumLevels - 1)}

\* Option<f64> arguments of set_level.
OptLevels == {None} \cup {Some(v) : v \in Levels}

Unconnected == "Unconnected"
Input == "Input"
Output == "Output"
Bidirectional == "Bidirectional"
Mode == {Unconnected, Input, Output, Bidirectional}

\* ------------------------------------------------------------------------
\* Circuits under test.  A circuit names its pins with their initial mode
\* and level, the traces with their pin lists, the observer of each pin
\* (0: none), the kind of each device and, for an Ic7406, the output pin of
\* each input pin.  harness is the set of pins the test harness drives
\* directly (the pins of a chip are driven by the chip only), modes the set
\* of modes the harness gives each of them, and pulls the pins whose
\* pull-up / pull-down the harness changes.

\* Three free pins on one trace, each observed by a TestDevice.
Bus ==
  [ mode    |-> <<Output, Output, Input>>,
    level   |-> <<None, None, None>>,
    pins    |-> << <<1, 2, 3>> >>,
    device  |-> <<1, 1, 1>>,
    kind    |-> <<"TestDevice">>,
    outputs |-> <<0, 0, 0>>,
    harness |-> {1, 2, 3},
    modes   |-> <<Mode, {Output, Input}, {Input}>>,
    pulls   |-> {1} ]

\* An Ic7406 (device 1) between two traces: input A1 (pin 1) on trace 1,
\* output Y1 (pin 2) on trace 2.  Pin 3 is a free input on trace 2 observed
\* by a TestDevice (device 2), pin 4 a free pin that drives trace 1.
\* Ic7406::new sets the outputs high before any trace exists.
Inverter ==
  [ mode    |-> <<Input, Output, Input, Output>>,
    level   |-> <<None, Some(PullUpLevel), None, None>>,
    pins    |-> << <<4, 1>>, <<2, 3>> >>,
    device  |-> <<1, 0, 2, 0>>,
    kind    |-> <<"Ic7406", "TestDevice">>,
    outputs |-> <<2, 0, 0, 0>>,
    harness |-> {4},
    modes   |-> <<{}, {}, {}, {Output, Input}>>,
    pulls   |-> {} ]

\* An Ic7406 (device 1) whose first output feeds its second input: A1
\* (pin 1) on trace 1, Y1 (pin 2) and A2 (pin 3) on trace 2, Y2 (pin 4) on
\* trace 3.  Pin 5 is a free pin that drives trace 1.
Chain ==
  [ mode    |-> <<Input, Output, Input, Output, Output>>,
    level   |-> <<None, Some(PullUpLevel), None, Some(PullUpLevel), None>>,
    pins    |-> << <<5, 1>>, <<2, 3>>, <<4>> >>,
    device  |-> <<1, 0, 1, 0, 0>>,
    kind    |-> <<"Ic7406">>,
    outputs |-> <<2, 0, 4, 0, 0>>,
    harness |-> {5},
    modes   |-> <<{}, {}, {}, {}, {}>>,
    pulls   |-> {} ]

\* An Ic7406 (device 1) whose output Y1 (pin 2) sits on the trace of its own
\* input A1 (pin 1).
Loop ==
  [ mode    |-> <<Input, Output>>,
    level   |-> <<None, Some(PullUpLevel)>>,
    pins    |-> << <<1, 2>> >>,
    device  |-> <<1, 0>>,
    kind    |-> <<"Ic7406">>,
    outputs |-> <<2, 0>>,
    harness |-> {},
    modes   |-> <<{}, {}>>,
    pulls   |-> {} ]

\* One pin alone on a trace, observed by a TestDevice.
Solo ==
  [ mode    |-> <<Bidirectional>>,
    level   |-> <<None>>,
    pins    |-> << <<1>> >>,
    device  |-> <<1>>,
    kind    |-> <<"TestDevice">>,
    outputs |-> <<0>>,
    harness |-> {1},
    modes   |-> <<Mode>>,
    pulls   |-> {1} ]

\* One pin that is connected to no trace, observed by a TestDevice.
Free ==
  [ mode    |-> <<Input>>,
    level   |-> <<None>>,
    pins    |-> << >>,
    device  |-> <<1>>,
    kind    |-> <<"TestDevice">>,
    outputs |-> <<0>>,
    harness |-> {1},
    modes   |-> <<Mode>>,
    pulls   |-> {1} ]

\* One Input pin that was supplied twice to its trace, trace!(p, p),
\* observed by a TestDevice.
Twice ==
  [ mode    |-> <<Input>>,
    level   |-> <<None>>,
    pins    |-> << <<1, 1>> >>,
    device  |-> <<1>>,
    kind    |-> <<"TestDevice">>,
    outputs |-> <<0>>,
    harness |-> {1},
    modes   |-> <<{Input}>>,
    pulls   |-> {} ]

\* A bench for wiring: pin 1 (Output) is wired to trace 1 with trace!(p),
\* pin 2 (Input, observed by TestDevice 1) is wired to nothing yet, trace 2
\* is Trace::new(vec![]).  TestDevice 2 is at hand to be attached.
Bench ==
  [ mode    |-> <<Output, Input>>,
    level   |-> <<None, None>>,
    pins    |-> << <<1>>, << >> >>,
    device  |-> <<0, 1>>,
    kind    |-> <<"TestDevice", "TestDevice">>,
    outputs |-> <<0, 0>>,
    harness |-> {1},
    modes   |-> <<{}, {}>>,
    pulls   |-> {} ]

\* Three different pins on one trace, each observed by its own TestDevice:
\* a driver that can withdraw (Output / Input), a driver, and a pin that
\* takes input and can be pulled.
Trio ==
  [ mode    |-> <<Output, Output, Input>>,
    level   |-> <<None, None, None>>,
    pins    |-> << <<1, 2, 3>> >>,
    device  |-> <<1, 2, 3>>,
    kind    |-> <<"TestDevice", "TestDevice", "TestDevice">>,
    outputs |-> <<0, 0, 0>>,
    harness |-> {1, 2, 3},
    modes   |-> <<{Output, Input}, {Output}, {Input, Bidirectional}>>,
    pulls   |-> {3} ]

\* An Ic74373 (device 1) with two of its eight latches, every pin on a
\* trace of its own as test_utils::make_traces wires it (trace n holds pin
\* n): D0 (pin 1), Q0 (pin 2), D1 (pin 3), Q1 (pin 4), OE (pin 5) and LE
\* (pin 6).  Ic74373::new clears the outputs before any trace exists.
\* inputs are the pins the chip's loops run over, latches the field of that
\* name; fell is kept for the properties: whether each D was high when LE
\* last went from high to low (empty before the first time).
Latch ==
  [ mode    |-> <<Input, Output, Input, Output, Input, Input>>,
    level   |-> <<None, Some(PullDownLevel), None, Some(PullDownLevel),
                  None, None>>,
    pins    |-> << <<1>>, <<2>>, <<3>>, <<4>>, <<5>>, <<6>> >>,
    device  |-> <<1, 0, 1, 0, 1, 1>>,
    kind    |-> <<"Ic74373">>,
    outputs |-> <<2, 0, 4, 0, 0, 0>>,
    names   |-> <<"D0", "Q0", "D1", "Q1", "OE", "LE">>,
    inputs  |-> <<1, 3>>,
    probes  |-> {1, 3, 5, 6},
    harness |-> {},
    modes   |-> <<{}, {}, {}, {}, {}, {}>>,
    pulls   |-> {},
    chip    |-> [latches |-> <<None, None>>, fell |-> <<>>] ]

\* An Ic4066 (device 1) with one of its four switches, every pin on a trace
\* of its own: the data pins A (pin 1) and B (pin 2) and the control pin X
\* (pin 3).  last is the field of that name for the switch; changed is kept
\* for the properties: the data pin whose level a call of the test changed
\* last (0 before the first).
Switch ==
  [ mode    |-> <<Bidirectional, Bidirectional, Input>>,
    level   |-> <<None, None, None>>,
    pins    |-> << <<1>>, <<2>>, <<3>> >>,
    device  |-> <<1, 1, 1>>,
    kind    |-> <<"Ic4066">>,
    outputs |-> <<0, 0, 0>>,
    names   |-> <<"A", "B", "X">>,
    inputs  |-> <<1, 2>>,
    probes  |-> {1, 2, 3},
    harness |-> {},
    modes   |-> <<{}, {}, {}>>,
    pulls   |-> {},
    chip    |-> [last |-> None, changed |-> 0, closed |-> FALSE] ]

\* Ic4164::resolve on a latched row and column: the index of the u32 word
\* of memory and of the bit within it.  row << 3 and (col & 0b1110_0000) >> 5
\* have no bit in common, so their bitwise or is their sum.
Ic4164_resolve(row, col) ==
  LET row_index == row * 8
      col_index == (col \div 32) % 8
      bit_index == col % 32
  IN <<row_index + col_index, bit_index>>

\* The values pins_to_value gives for n address pins.
Addresses(n) == 0..(2^n - 1)

\* An Ic4164 (device 1) with one of its eight address pins, every pin on a
\* trace of its own: A0 (pin 1), D (pin 2), Q (pin 3), RAS (pin 4), CAS
\* (pin 5) and WE (pin 6).  Ic4164::new floats Q and attaches the device to
\* RAS, CAS and WE only.  row, col, data and memory are the fields of those
\* names, memory holding the words that the addresses of the one address
\* pin resolve to.  Kept for the properties: fault tells that resolve was
\* called without a row or a column, and shadow is the set of <<row, col>>
\* whose latest write cycle (CAS and WE low, one of them just changed)
\* stored a 1.
Dram ==
  [ mode    |-> <<Input, Input, Output, Input, Input, Input>>,
    level   |-> <<None, None, None, None, None, None>>,
    pins    |-> << <<1>>, <<2>>, <<3>>, <<4>>, <<5>>, <<6>> >>,
    device  |-> <<0, 0, 0, 1, 1, 1>>,
    kind    |-> <<"Ic4164">>,
    outputs |-> <<0, 0, 0, 0, 0, 0>>,
    names   |-> <<"A0", "D", "Q", "RAS", "CAS", "WE">>,
    inputs  |-> <<1>>,
    probes  |-> {1, 2, 4, 5, 6},
    harness |-> {},
    modes   |-> <<{}, {}, {}, {}, {}, {}>>,
    pulls   |-> {},
    chip    |-> [ row |-> None, col |-> None, data |-> None,
                  memory |-> [w \in {Ic4164_resolve(r, c)[1] :
                                       r \in Addresses(1), c \in Addresses(1)}
                                |-> 0],
                  fault |-> FALSE, shadow |-> {} ] ]

Circuits ==
  [ bus |-> Bus, inverter |-> Inverter, chain |-> Chain, loop |-> Loop,
    solo |-> Solo, free |-> Free, twice |-> Twice, bench |-> Bench,
    trio |-> Trio, latch |-> Latch, switch |-> Switch, dram |-> Dram ]

\* The circuits that are one chip on the test bench.
Chips == {"latch", "switch", "dram"}

\* The circuits on which the order of the pins of a trace is varied.
Reordered == {"trio"}

\* The circuits whose wiring the harness changes after construction.
Wirable == {"bench"}

\* add_pin is not called on a trace that has MaxPins entries.
MaxPins == 2

VARIABLES
  circuit,   \* the circuit under test (fixed)
  mode,      \* Pin.mode
  level,     \* Pin.level
  float,     \* Pin.float
  trace,     \* Pin.trace: the trace of the pin, 0 when not connected
  device,    \* Pin.device: the observer of the pin, 0 when none
  pins,      \* Trace.pins
  tlevel,    \* Trace.level
  tfloat,    \* Trace.float
  pushed,    \* per trace, the argument of the latest Trace::set_level or
             \* Trace::update call on it (None before the first)
  notified,  \* the Device::update calls made during the latest public call
  panicked,  \* a RefCell borrow failed: the program has aborted
  trip,      \* progress of a mode round trip: stage 1 after set_mode(Input)
             \* on an Output pin that held level v and was the only driver
             \* of its trace, 2 after the set_mode(Output) that follows it,
             \* 3 after the set_level(v) that follows that; 0 otherwise
  op,        \* the latest public call: its name, target and arguments
             \* (arg a level, marg a mode, other a pin, trace or device),
             \* and whether it repeats the call before it (again)
  chip       \* the fields of the chip under test besides its pins

vars == <<circuit, mode, level, float, trace, device, pins, tlevel, tfloat,
          pushed, notified, panicked, trip, op, chip>>

Pins == DOMAIN mode
Traces == DOMAIN pins

kind(d) == Circuits[circuit].kind[d]
output_for(p) == Circuits[circuit].outputs[p]
Harness == Circuits[circuit].harness
HarnessModes(p) == Circuits[circuit].modes[p]
HarnessPulls == Circuits[circuit].pulls

\* The pin of the chip under test with the name n, the pins its loops run
\* over (INPUTS), and the traces the test sets.
Named(n) ==
  CHOOSE p \in DOMAIN Circuits[circuit].names : Circuits[circuit].names[p] = n
INPUTS == Circuits[circuit].inputs
Probes == Circuits[circuit].probes

\* ------------------------------------------------------------------------
\* Pure helpers

\* pin.rs normalize
normalize(lv, fl) == IF lv = None THEN fl ELSE lv

\* Pin::input / Pin::output
input(m) == m \in {Input, Bidirectional}
output(m) == m \in {Output, Bidirectional}

\* Pin::high / low / floating and Trace::high / low / floating
high(lv) == \E n \in lv : n * 2 >= PullUpLevel

\* Mutant of low: a level below 0.0 is not low.
low_from_zero(lv) == \E n \in lv : n * 2 < PullUpLevel /\ n >= PullDownLevel

low(lv) == \E n \in lv : n * 2 < PullUpLevel

floating(lv) == lv = None

\* utils.rs value_high
value_high(lv) == \E n \in lv : n * 2 >= PullUpLevel

Range(s) == {s[i] : i \in DOMAIN s}

MaxOf(S) == CHOOSE x \in S : \A y \in S : y <= x

\* The heap as the public call finds it: nothing is borrowed.
Heap ==
  [ mode |-> mode, level |-> level, float |-> float,
    pins |-> pins, tlevel |-> tlevel, tfloat |-> tfloat, pushed |-> pushed,
    notified |-> <<>>, panicked |-> FALSE,
    bpin |-> {}, btrace |-> {}, bdev |-> {}, chip |-> chip ]

Panic(k) == [k EXCEPT !.panicked = TRUE]

\* The end of the scope of a borrow_mut(): the call made under the borrow has
\* left heap k; when it returned the borrow is given back, and a panic is
\* passed on.
Pin_release(k, p) ==
  IF k.panicked THEN k ELSE [k EXCEPT !.bpin = @ \ {p}]
Trace_release(k, t) ==
  IF k.panicked THEN k ELSE [k EXCEPT !.btrace = @ \ {t}]
Device_release(k, d) ==
  IF k.panicked THEN k ELSE [k EXCEPT !.bdev = @ \ {d}]

\* self.level = lv after the trace of the pin has been updated, leaving
\* heap k.
Pin_store(k, p, lv) ==
  IF k.panicked THEN k ELSE [k EXCEPT !.level[p] = lv]

\* ------------------------------------------------------------------------
\* Trace::calculate

\* Mutant of Drivers: the filter accepts Bidirectional pins as well.
Drivers_with_bidirectional(k, t) ==
  {p \in Range(k.pins[t]) :
     p \notin k.bpin /\ output(k.mode[p]) /\ ~floating(k.level[p])}

\* The pins that pass the filter: try_borrow succeeds (the pin is not
\* mutably borrowed), the mode is Output and the level is defined.
Drivers(k, t) ==
  {p \in Range(k.pins[t]) :
     p \notin k.bpin /\ k.mode[p] = Output /\ ~floating(k.level[p])}

\* Mutant of calculate: the level handed in by a pin is not compared with
\* the other drivers' maximum.
calculate_drops_incoming(k, t, lv, from_pin) ==
  LET ds == Drivers(k, t) IN
  IF ds # {}
  THEN Some(MaxOf(UNION {k.level[p] : p \in ds}))
  ELSE IF lv # None THEN lv ELSE k.tfloat[t]

\* Mutant of calculate: a pin that hands in None floats the trace whatever
\* the other drivers hold.
calculate_floats_on_none(k, t, lv, from_pin) ==
  LET ds == Drivers(k, t) IN
  IF from_pin /\ lv = None THEN k.tfloat[t]
  ELSE IF ds # {}
  THEN LET plevel == MaxOf(UNION {k.level[p] : p \in ds}) IN
       IF from_pin
       THEN IF lv # None /\ MaxOf(lv) > plevel THEN lv ELSE Some(plevel)
       ELSE Some(plevel)
  ELSE IF lv # None THEN lv ELSE k.tfloat[t]

\* Mutant of calculate: without a driver the trace takes its float and the
\* level handed in is lost.
calculate_floats_without_drivers(k, t, lv, from_pin) ==
  LET ds == Drivers(k, t) IN
  IF ds # {}
  THEN LET plevel == MaxOf(UNION {k.level[p] : p \in ds}) IN
       IF from_pin
       THEN IF lv # None /\ MaxOf(lv) > plevel THEN lv ELSE Some(plevel)
       ELSE Some(plevel)
  ELSE k.tfloat[t]

\* Mutant of calculate: the level of the first driver in the list is taken
\* for the maximum.
calculate_first_driver(k, t, lv, from_pin) ==
  LET ds == Drivers(k, t) IN
  IF ds # {}
  THEN LET i == CHOOSE i \in DOMAIN k.pins[t] :
                  /\ k.pins[t][i] \in ds
                  /\ \A j \in DOMAIN k.pins[t] : k.pins[t][j] \in ds => i <= j
           plevel == MaxOf(k.level[k.pins[t][i]])
       IN IF from_pin
          THEN IF lv # None /\ MaxOf(lv) > plevel THEN lv ELSE Some(plevel)
          ELSE Some(plevel)
  ELSE IF lv # None THEN lv ELSE k.tfloat[t]

calculate(k, t, lv, from_pin) ==
  LET ds == Drivers(k, t) IN
  IF ds # {}
  THEN LET plevel == MaxOf(UNION {k.level[p] : p \in ds}) IN
       IF from_pin
       THEN IF lv # None /\ MaxOf(lv) > plevel THEN lv ELSE Some(plevel)
       ELSE Some(plevel)
  ELSE IF lv # None THEN lv ELSE k.tfloat[t]

\* ------------------------------------------------------------------------
\* The nested calls

RECURSIVE Pin_set_level(_, _, _)
RECURSIVE Pin_update(_, _, _)
RECURSIVE Trace_update(_, _, _)
RECURSIVE Trace_update_pins(_, _, _, _)
RECURSIVE Device_update(_, _, _)
RECURSIVE Pin_set_mode(_, _, _)

\* Mutant of Pin_notify: the device that was attached first keeps being
\* notified after another attach or a detach.
Pin_notify_first_observer(k, p) ==
  LET d == Circuits[circuit].device[p] IN
  IF d = 0 THEN k
  ELSE IF d \in k.bdev THEN Panic(k)
  ELSE LET k1 == Device_update([k EXCEPT !.bdev = @ \cup {d}], d, p) IN
       IF k1.panicked THEN k1 ELSE [k1 EXCEPT !.bdev = @ \ {d}]

\* Pin::notify: ob.borrow_mut().update(event) for the observer, if any.
Pin_notify(k, p) ==
  LET d == device[p] IN
  IF d = 0 THEN k
  ELSE IF d \in k.bdev THEN Panic(k)
  ELSE Device_release(Device_update([k EXCEPT !.bdev = @ \cup {d}], d, p), d)

\* Mutant of Pin_update: the observer is notified of every delivery to a pin
\* that takes input, also when the level does not change.
Pin_update_always_notifies(k, p, lv) ==
  LET new_level == normalize(lv, k.float[p]) IN
  IF input(k.mode[p])
  THEN Pin_notify([k EXCEPT !.level[p] = new_level], p)
  ELSE k

\* Mutant of Pin_update: the delivered level is stored as it comes, without
\* the pin's float.
Pin_update_raw(k, p, lv) ==
  IF input(k.mode[p]) /\ lv # k.level[p]
  THEN Pin_notify([k EXCEPT !.level[p] = lv], p)
  ELSE k

\* Mutant of Pin_update: the pin takes the delivered level in every mode.
Pin_update_any_mode(k, p, lv) ==
  LET new_level == normalize(lv, k.float[p]) IN
  IF new_level # k.level[p]
  THEN Pin_notify([k EXCEPT !.level[p] = new_level], p)
  ELSE k

\* Mutant of Pin_update: the observer is notified before the new level is
\* stored, so that the event shows the old level.
Pin_update_notifies_first(k, p, lv) ==
  LET new_level == normalize(lv, k.float[p]) IN
  IF input(k.mode[p]) /\ new_level # k.level[p]
  THEN LET k1 == Pin_notify(k, p) IN
       IF k1.panicked THEN k1 ELSE [k1 EXCEPT !.level[p] = new_level]
  ELSE k

\* Pin::update, called by the trace with the pin mutably borrowed.
Pin_update(k, p, lv) ==
  LET new_level == normalize(lv, k.float[p]) IN
  IF input(k.mode[p]) /\ new_level # k.level[p]
  THEN Pin_notify([k EXCEPT !.level[p] = new_level], p)
  ELSE k

\* trace.borrow_mut().update(lv), as Pin::set_level and Pin::set_mode call it.
Trace_borrow_update(k, t, lv) ==
  IF t \in k.btrace THEN Panic(k)
  ELSE Trace_release(Trace_update([k EXCEPT !.btrace = @ \cup {t}], t, lv), t)

\* Mutant of Pin_set_level: a connected pin in Unconnected mode hands the
\* level to its trace like an Output pin.
Pin_set_level_unconnected_drives(k, p, lv) ==
  IF trace[p] = 0
  THEN [k EXCEPT !.level[p] = normalize(lv, k.float[p])]
  ELSE CASE k.mode[p] = Input -> k
         [] OTHER ->
              LET normalized == normalize(lv, k.float[p])
                  k1 == Trace_borrow_update(k, trace[p], normalized)
              IN IF k1.panicked THEN k1
                 ELSE [k1 EXCEPT !.level[p] = normalized]

\* Mutant of Pin_set_level: a connected Input pin takes the level like an
\* Unconnected one.
Pin_set_level_input_takes(k, p, lv) ==
  IF trace[p] = 0
  THEN [k EXCEPT !.level[p] = normalize(lv, k.float[p])]
  ELSE CASE k.mode[p] \in {Unconnected, Input} ->
              [k EXCEPT !.level[p] = normalize(lv, k.float[p])]
         [] OTHER ->
              LET normalized == normalize(lv, k.float[p])
                  k1 == Trace_borrow_update(k, trace[p], normalized)
              IN IF k1.panicked THEN k1
                 ELSE [k1 EXCEPT !.level[p] = normalized]

\* Mutant of Pin_set_level: the mode is examined before the trace, so that
\* an Input pin without a trace ignores the level too.
Pin_set_level_mode_first(k, p, lv) ==
  CASE k.mode[p] = Input -> k
    [] k.mode[p] = Unconnected \/ trace[p] = 0 ->
         [k EXCEPT !.level[p] = normalize(lv, k.float[p])]
    [] OTHER ->
         LET normalized == normalize(lv, k.float[p])
             k1 == Trace_borrow_update(k, trace[p], normalized)
         IN IF k1.panicked THEN k1
            ELSE [k1 EXCEPT !.level[p] = normalized]

\* Pin::set_level, called with the pin mutably borrowed.
Pin_set_level(k, p, lv) ==
  IF trace[p] = 0
  THEN [k EXCEPT !.level[p] = normalize(lv, k.float[p])]
  ELSE CASE k.mode[p] = Unconnected ->
              [k EXCEPT !.level[p] = normalize(lv, k.float[p])]
         [] k.mode[p] = Input -> k
         [] OTHER ->
              Pin_store(Trace_borrow_update(k, trace[p],
                                            normalize(lv, k.float[p])),
                        p, normalize(lv, k.float[p]))

\* Mutant of Trace_update_pins: the pin that is borrowed, the one the change
\* comes from, is handed the level like every other pin.
Trace_update_pins_reenters(k, t, i, lv) ==
  IF k.panicked \/ i > Len(k.pins[t]) THEN k
  ELSE LET p == k.pins[t][i]
           k1 == Pin_update([k EXCEPT !.bpin = @ \cup {p}], p, lv)
       IN IF k1.panicked THEN k1
          ELSE Trace_update_pins([k1 EXCEPT !.bpin = k.bpin], t, i + 1, lv)

\* The loop of Trace::update: a pin that cannot be borrowed is skipped, every
\* other pin is handed the level the trace was called with.
Trace_update_pins(k, t, i, lv) ==
  IF k.panicked \/ i > Len(k.pins[t]) THEN k
  ELSE LET p == k.pins[t][i] IN
       IF p \in k.bpin THEN Trace_update_pins(k, t, i + 1, lv)
       ELSE Trace_update_pins(
              Pin_release(Pin_update([k EXCEPT !.bpin = @ \cup {p}], p, lv), p),
              t, i + 1, lv)

\* Trace::update, the pin-originated path.
Trace_update(k, t, lv) ==
  Trace_update_pins([k EXCEPT !.tlevel[t] = calculate(k, t, lv, TRUE),
                               !.pushed[t] = lv],
                    t, 1, lv)

\* set_level!(pin, lv) as a chip calls it on one of its pins:
\* pin.borrow_mut().set_level(lv).
Pin_borrow_set_level(k, p, lv) ==
  IF k.panicked THEN k
  ELSE IF p \in k.bpin THEN Panic(k)
  ELSE Pin_release(Pin_set_level([k EXCEPT !.bpin = @ \cup {p}], p, lv), p)

\* The level set!(pin) or clear!(pin) gives a pin.
Bit(b) == IF b THEN Some(PullUpLevel) ELSE Some(PullDownLevel)

RECURSIVE Ic74373_pass(_, _)
RECURSIVE Ic74373_float(_, _)
RECURSIVE Ic74373_enable(_, _, _)

\* self.latches[i] = None after the output has been set, leaving heap k.
Ic74373_unlatch(k, i) ==
  IF k.panicked THEN k ELSE [k EXCEPT !.chip.latches[i] = None]

\* Ic74373::update, LE went high: every output is set from its input and
\* every latch is emptied.
Ic74373_pass(k, i) ==
  IF k.panicked \/ i > Len(INPUTS) THEN k
  ELSE IF INPUTS[i] \in k.bpin THEN Panic(k)
  ELSE Ic74373_pass(
         Ic74373_unlatch(
           Pin_borrow_set_level(k, output_for(INPUTS[i]),
                                Bit(value_high(k.level[INPUTS[i]]))),
           i),
         i + 1)

\* Ic74373::update, LE went to a level that is not high: every latch takes
\* the value of its input.
Ic74373_latch(k) ==
  IF \E i \in DOMAIN INPUTS : INPUTS[i] \in k.bpin THEN Panic(k)
  ELSE [k EXCEPT !.chip.latches =
          [i \in DOMAIN INPUTS |-> Bit(value_high(k.level[INPUTS[i]]))]]

\* Ic74373::update, OE went high: float!(q) for every output.
Ic74373_float(k, i) ==
  IF k.panicked \/ i > Len(INPUTS) THEN k
  ELSE Ic74373_float(Pin_borrow_set_level(k, output_for(INPUTS[i]), None),
                     i + 1)

\* Ic74373::update, OE went to a level that is not high: every output takes
\* its latch when LE is not high, and the value of its input otherwise.
Ic74373_enable(k, i, latched) ==
  IF k.panicked \/ i > Len(INPUTS) THEN k
  ELSE LET d == INPUTS[i] IN
       IF latched
       THEN Ic74373_enable(Pin_borrow_set_level(k, output_for(d),
                                                k.chip.latches[i]),
                           i + 1, latched)
       ELSE IF d \in k.bpin THEN Panic(k)
       ELSE Ic74373_enable(Pin_borrow_set_level(k, output_for(d),
                                                Bit(value_high(k.level[d]))),
                           i + 1, latched)

\* Ic74373::update for the event that pin p changed to the level it holds.
Ic74373_update(k, p) ==
  CASE output_for(p) # 0 ->
         IF Named("LE") \in k.bpin \/ Named("OE") \in k.bpin THEN Panic(k)
         ELSE IF high(k.level[Named("LE")]) /\ ~high(k.level[Named("OE")])
         THEN Pin_borrow_set_level(k, output_for(p),
                                   Bit(value_high(k.level[p])))
         ELSE k
    [] p = Named("LE") ->
         IF value_high(k.level[p]) THEN Ic74373_pass(k, 1)
         ELSE Ic74373_latch(k)
    [] p = Named("OE") ->
         IF value_high(k.level[p]) THEN Ic74373_float(k, 1)
         ELSE IF Named("LE") \in k.bpin THEN Panic(k)
         ELSE Ic74373_enable(k, 1, ~high(k.level[Named("LE")]))
    [] OTHER -> k

\* set_mode!(pin, m) as a chip calls it on one of its pins:
\* pin.borrow_mut().set_mode(m).
Pin_borrow_set_mode(k, p, m) ==
  IF k.panicked THEN k
  ELSE IF p \in k.bpin THEN Panic(k)
  ELSE Pin_release(Pin_set_mode([k EXCEPT !.bpin = @ \cup {p}], p, m), p)

\* set_level!(to, level!(from)): the level is read with from.borrow().
Pin_copy_level(k, to, from) ==
  IF k.panicked THEN k
  ELSE IF from \in k.bpin THEN Panic(k)
  ELSE Pin_borrow_set_level(k, to, k.level[from])

\* Ic4066::update, the match on self.last[index] with both data pins
\* Bidirectional (heap k): the pin that did not change last takes the
\* level of the one that did; both are cleared when none did.
Ic4066_mirror(k, a, b) ==
  IF k.panicked THEN k
  ELSE IF k.chip.last = Some(a) THEN Pin_copy_level(k, b, a)
  ELSE IF k.chip.last = Some(b) THEN Pin_copy_level(k, a, b)
  ELSE Pin_borrow_set_level(
         Pin_borrow_set_level(k, a, Some(PullDownLevel)),
         b, Some(PullDownLevel))

\* A switch that forgets which data pin changed last and closes at 0.0.
Ic4066_close_clears(k, a, b) ==
  Pin_borrow_set_level(
    Pin_borrow_set_level(
      Pin_borrow_set_mode(Pin_borrow_set_mode(k, a, Bidirectional),
                          b, Bidirectional),
      a, Some(PullDownLevel)),
    b, Some(PullDownLevel))

\* Ic4066::update, the control pin went to a level that is not high: both
\* data pins become Bidirectional and the pin that did not change last
\* takes the level of the one that did; both are cleared when none did.
Ic4066_close(k, a, b) ==
  Ic4066_mirror(
    Pin_borrow_set_mode(Pin_borrow_set_mode(k, a, Bidirectional),
                        b, Bidirectional),
    a, b)

\* Ic4066::update for the event that pin p changed to the level it holds.
Ic4066_update(k, p) ==
  LET a == Named("A")
      b == Named("B")
      x == Named("X")
  IN CASE p = x ->
            IF value_high(k.level[p])
            THEN Pin_borrow_set_mode(Pin_borrow_set_mode(k, a, Input),
                                     b, Input)
            ELSE Ic4066_close(k, a, b)
       [] p \in {a, b} ->
            LET k1 == [k EXCEPT !.chip.last = Some(p)] IN
            IF x \in k1.bpin THEN Panic(k1)
            ELSE IF low(k1.level[x])
            THEN Pin_borrow_set_level(k1, IF p = a THEN b ELSE a,
                                      k1.level[p])
            ELSE k1
       [] OTHER -> k

RECURSIVE pins_to_value(_, _)

\* utils.rs pins_to_value: bit i of the value is set when pin i of ps is
\* high.
pins_to_value(k, ps) ==
  IF ps = <<>> THEN 0
  ELSE (IF value_high(k.level[Head(ps)]) THEN 1 ELSE 0)
       + 2 * pins_to_value(k, Tail(ps))

\* pins_to_value(&self.addr_pins) as u8
Ic4164_address(k) == pins_to_value(k, INPUTS) % 256

\* Whether bit b of the word m is set: (m & (1 << b)) >> b.
TestBit(m, b) == (m \div 2^b) % 2 = 1

\* Ic4164::read: the bit at the latched address is put on Q.  The unwrap in
\* resolve panics when no row or no column is latched.
Ic4164_read(k) ==
  IF k.chip.row = None \/ k.chip.col = None
  THEN Panic([k EXCEPT !.chip.fault = TRUE])
  ELSE LET row == CHOOSE r \in k.chip.row : TRUE
           col == CHOOSE c \in k.chip.col : TRUE
           at == Ic4164_resolve(row, col)
       IN Pin_borrow_set_level(k, Named("Q"),
                               Bit(TestBit(k.chip.memory[at[1]], at[2])))

\* Ic4164::write: the latched data bit is stored at the latched address,
\* and put on Q as well when Q is not floating.
Ic4164_write(k) ==
  IF k.chip.row = None \/ k.chip.col = None
  THEN Panic([k EXCEPT !.chip.fault = TRUE])
  ELSE LET row == CHOOSE r \in k.chip.row : TRUE
           col == CHOOSE c \in k.chip.col : TRUE
           at == Ic4164_resolve(row, col)
           word == k.chip.memory[at[1]]
           k1 == [k EXCEPT !.chip.memory[at[1]] =
                    IF k.chip.data = Some(1)
                    THEN IF TestBit(word, at[2]) THEN word
                         ELSE word + 2^(at[2])
                    ELSE IF TestBit(word, at[2]) THEN word - 2^(at[2])
                         ELSE word]
       IN IF Named("Q") \in k1.bpin THEN Panic(k1)
          ELSE IF ~floating(k1.level[Named("Q")])
          THEN Pin_borrow_set_level(k1, Named("Q"),
                                    Bit(k1.chip.data = Some(1)))
          ELSE k1

\* self.data = Some(if high!(self.pins[D]) { 1 } else { 0 }); self.write()
Ic4164_store(k) ==
  IF Named("D") \in k.bpin THEN Panic(k)
  ELSE Ic4164_write([k EXCEPT !.chip.data =
                       Some(IF high(k.level[Named("D")]) THEN 1 ELSE 0)])

\* self.col = None; self.data = None after Q has been floated, leaving
\* heap k.
Ic4164_unlatch(k) ==
  IF k.panicked THEN k ELSE [k EXCEPT !.chip.col = None, !.chip.data = None]

\* Ic4164::update for the event that pin p changed to the level it holds.
Ic4164_update(k, p) ==
  CASE p = Named("RAS") ->
         IF high(k.level[p]) THEN [k EXCEPT !.chip.row = None]
         ELSE IF \E i \in DOMAIN INPUTS : INPUTS[i] \in k.bpin THEN Panic(k)
         ELSE [k EXCEPT !.chip.row = Some(Ic4164_address(k))]
    [] p = Named("CAS") ->
         IF high(k.level[p])
         THEN Ic4164_unlatch(Pin_borrow_set_level(k, Named("Q"), None))
         ELSE IF \E i \in DOMAIN INPUTS : INPUTS[i] \in k.bpin THEN Panic(k)
         ELSE LET k1 == [k EXCEPT !.chip.col = Some(Ic4164_address(k))] IN
              IF Named("WE") \in k1.bpin THEN Panic(k1)
              ELSE IF high(k1.level[Named("WE")]) THEN Ic4164_read(k1)
              ELSE Ic4164_store(k1)
    [] p = Named("WE") ->
         IF high(k.level[p]) THEN [k EXCEPT !.chip.data = None]
         ELSE IF Named("CAS") \in k.bpin THEN Panic(k)
         ELSE IF high(k.level[Named("CAS")])
         THEN Pin_borrow_set_level(k, Named("Q"), None)
         ELSE Ic4164_store(k)
    [] OTHER -> k

\* Device::update.  Every device is recorded in notified (the TestDevice's
\* count and level).  An Ic7406 then drives the output of the input that
\* changed: clear!(self.pins[o]) when the input is high, set! otherwise.
Device_update(k, d, p) ==
  LET k1 == [k EXCEPT !.notified = Append(@, <<d, p, k.level[p]>>)] IN
  IF kind(d) = "Ic7406" /\ output_for(p) # 0
  THEN LET o == output_for(p)
           v == IF value_high(k.level[p]) THEN Some(PullDownLevel)
                ELSE Some(PullUpLevel)
       IN IF o \in k1.bpin THEN Panic(k1)
          ELSE Pin_release(Pin_set_level([k1 EXCEPT !.bpin = @ \cup {o}], o, v),
                           o)
  ELSE IF kind(d) = "Ic74373" THEN Ic74373_update(k1, p)
  ELSE IF kind(d) = "Ic4066" THEN Ic4066_update(k1, p)
  ELSE IF kind(d) = "Ic4164" THEN Ic4164_update(k1, p)
  ELSE k1

RECURSIVE Trace_set_level_pins(_, _, _)

\* The loop of Trace::set_level: pin.borrow_mut().update(self.level).
Trace_set_level_pins(k, t, i) ==
  IF k.panicked \/ i > Len(k.pins[t]) THEN k
  ELSE LET p == k.pins[t][i] IN
       IF p \in k.bpin THEN Panic(k)
       ELSE Trace_set_level_pins(
              Pin_release(Pin_update([k EXCEPT !.bpin = @ \cup {p}], p,
                                     k.tlevel[t]), p),
              t, i + 1)

\* Mutant of Trace_set_level: the direct path computes the level as the
\* pin-originated path does.
Trace_set_level_from_pin(k, t, lv) ==
  Trace_set_level_pins([k EXCEPT !.tlevel[t] = calculate(k, t, lv, TRUE),
                                  !.pushed[t] = lv],
                       t, 1)

\* Trace::set_level, the direct path.
Trace_set_level(k, t, lv) ==
  Trace_set_level_pins([k EXCEPT !.tlevel[t] = calculate(k, t, lv, FALSE),
                                  !.pushed[t] = lv],
                       t, 1)

\* Mutant of Pin_set_mode: a pin that leaves Output / Bidirectional takes
\* the level of its trace, whether it becomes Input or Unconnected.
Pin_set_mode_adopts_always(k, p, m) ==
  LET old_mode == k.mode[p]
      old_level == k.level[p]
      k1 == [k EXCEPT !.mode[p] = m]
      t == trace[p]
  IN IF t = 0 THEN k1
     ELSE IF output(m) THEN Trace_borrow_update(k1, t, k1.level[p])
     ELSE LET k2 == IF t \in k1.btrace THEN Panic(k1)
                    ELSE [k1 EXCEPT
                            !.level[p] = normalize(k1.tlevel[t], k1.float[p])]
          IN IF k2.panicked THEN k2
             ELSE IF old_level # None /\ output(old_mode)
                  THEN Trace_borrow_update(k2, t, None)
                  ELSE k2

\* Mutant of Pin_set_mode: a pin that stops driving does not tell its trace.
Pin_set_mode_no_withdraw(k, p, m) ==
  LET k1 == [k EXCEPT !.mode[p] = m]
      t == trace[p]
  IN IF t = 0 THEN k1
     ELSE IF output(m) THEN Trace_borrow_update(k1, t, k1.level[p])
     ELSE IF m = Input
          THEN IF t \in k1.btrace THEN Panic(k1)
               ELSE [k1 EXCEPT
                       !.level[p] = normalize(k1.tlevel[t], k1.float[p])]
          ELSE k1

\* Pin::set_mode, called with the pin mutably borrowed.
Pin_set_mode(k, p, m) ==
  LET old_mode == k.mode[p]
      old_level == k.level[p]
      k1 == [k EXCEPT !.mode[p] = m]
      t == trace[p]
  IN IF t = 0 THEN k1
     ELSE IF output(m) THEN Trace_borrow_update(k1, t, k1.level[p])
     ELSE LET k2 == IF m = Input
                    THEN IF t \in k1.btrace THEN Panic(k1)
                         ELSE [k1 EXCEPT
                                 !.level[p] = normalize(k1.tlevel[t], k1.float[p])]
                    ELSE k1
          IN IF k2.panicked THEN k2
             ELSE IF old_level # None /\ output(old_mode)
                  THEN Trace_borrow_update(k2, t, None)
                  ELSE k2

\* Mutant of Pin_pull: a pull replaces the level the pin holds.
Pin_pull_overrides(k, p, fl) ==
  [k EXCEPT !.float[p] = fl, !.level[p] = normalize(fl, k.level[p])]

\* Pin::pull_up / pull_down / pull_off
Pin_pull(k, p, fl) ==
  [k EXCEPT !.float[p] = fl, !.level[p] = normalize(k.level[p], fl)]

\* Mutant of Trace_pull: the float is stored and the level is left for the
\* next set_level to recompute.
Trace_pull_lazy(k, t, fl) ==
  [k EXCEPT !.tfloat[t] = fl]

\* Trace::pull_up / pull_down / pull_off
Trace_pull(k, t, fl) ==
  Trace_set_level([k EXCEPT !.tfloat[t] = fl], t, k.tlevel[t])

\* ------------------------------------------------------------------------
\* The public calls

\* The circuit has no chip with fields of its own.
NoChip == [latches |-> <<>>]

\* No round trip is under way.
NoTrip == [stage |-> 0, pin |-> 0, v |-> None]

\* The state after the construction of one of the circuits named.
Start(names) ==
  /\ circuit \in names
  /\ LET c == Circuits[circuit] IN
     /\ mode = c.mode
     /\ level = c.level
     /\ float = [p \in DOMAIN c.mode |-> None]
     /\ trace = [p \in DOMAIN c.mode |->
                   IF \E t \in DOMAIN c.pins : p \in Range(c.pins[t])
                   THEN CHOOSE t \in DOMAIN c.pins : p \in Range(c.pins[t])
                   ELSE 0]
     /\ device = c.device
     /\ pins = c.pins
     /\ tlevel = [t \in DOMAIN c.pins |-> None]
     /\ tfloat = [t \in DOMAIN c.pins |-> None]
     /\ pushed = [t \in DOMAIN c.pins |-> None]
     /\ chip = IF "chip" \in DOMAIN c THEN c.chip ELSE NoChip
  /\ notified = <<>>
  /\ panicked = FALSE
  /\ trip = NoTrip
  /\ op = [name |-> "new", target |-> 0, arg |-> None, marg |-> "-",
           other |-> 0, again |-> FALSE]

Init == Start(DOMAIN Circuits \ (Wirable \cup Reordered \cup Chips))

\* The round trip after the call name(target, arg / marg), made in the
\* current state.
TripNext(name, target, arg, marg) ==
  IF /\ name = "Pin::set_mode" /\ marg = Input /\ trace[target] # 0
     /\ mode[target] = Output /\ level[target] # None
     /\ \A q \in Range(pins[trace[target]]) \ {target} :
          ~(output(mode[q]) /\ level[q] # None)
  THEN [stage |-> 1, pin |-> target, v |-> level[target]]
  ELSE IF /\ trip.stage = 1 /\ name = "Pin::set_mode"
          /\ target = trip.pin /\ marg = Output
  THEN [trip EXCEPT !.stage = 2]
  ELSE IF /\ trip.stage = 2 /\ name = "Pin::set_level"
          /\ target = trip.pin /\ arg = trip.v
  THEN [trip EXCEPT !.stage = 3]
  ELSE NoTrip

\* The fields of the chip when the call name(target, ...) has ended with
\* heap k, with what is kept for the properties: a call that took LE from
\* high to low records which D inputs were high, and a call on the trace of
\* a data pin of a switch that changed the level of that pin records the
\* pin, and closed tells whether the call took X from high to low; a call
\* that changed CAS or WE of a memory chip and left both low with a row and
\* a column latched is a write cycle, which records the level of D for that
\* row and column.
Watch(k, name, target) ==
  IF "fell" \in DOMAIN k.chip
  THEN [k.chip EXCEPT
          !.fell = IF /\ high(level[Named("LE")])
                      /\ low(k.level[Named("LE")])
                   THEN [i \in DOMAIN INPUTS |-> value_high(level[INPUTS[i]])]
                   ELSE @]
  ELSE IF "changed" \in DOMAIN k.chip
  THEN [k.chip EXCEPT
          !.changed =
            IF /\ name = "Trace::set_level"
               /\ \E i \in DOMAIN INPUTS : pins[target] = <<INPUTS[i]>>
               /\ k.level[pins[target][1]] # level[pins[target][1]]
            THEN pins[target][1]
            ELSE @,
          !.closed = high(level[Named("X")]) /\ low(k.level[Named("X")])]
  ELSE IF "shadow" \in DOMAIN k.chip
  THEN [k.chip EXCEPT
          !.shadow =
            IF /\ ~k.panicked
               /\ k.chip.row # None /\ k.chip.col # None
               /\ low(k.level[Named("CAS")]) /\ low(k.level[Named("WE")])
               /\ \/ k.level[Named("CAS")] # level[Named("CAS")]
                  \/ k.level[Named("WE")] # level[Named("WE")]
            THEN LET at == <<CHOOSE r \in k.chip.row : TRUE,
                             CHOOSE c \in k.chip.col : TRUE>>
                 IN IF high(k.level[Named("D")]) THEN @ \cup {at}
                    ELSE @ \ {at}
            ELSE @]
  ELSE k.chip

\* The call has ended (returned or panicked) with heap k.  arg is the level
\* argument of the call, marg its mode argument ("-" when it has none).
Return(k, name, target, arg, marg) ==
  /\ mode' = k.mode
  /\ level' = k.level
  /\ float' = k.float
  /\ tlevel' = k.tlevel
  /\ tfloat' = k.tfloat
  /\ pushed' = k.pushed
  /\ notified' = k.notified
  /\ panicked' = k.panicked
  /\ trip' = TripNext(name, target, arg, marg)
  /\ op' = [name |-> name, target |-> target, arg |-> arg, marg |-> marg,
            other |-> 0,
            again |-> (/\ op.name = name /\ op.target = target
                       /\ op.arg = arg /\ op.marg = marg)]
  /\ pins' = k.pins
  /\ chip' = Watch(k, name, target)
  /\ UNCHANGED <<circuit, trace, device>>

\* pin.borrow_mut().set_level(lv)
PinSetLevel(p, lv) ==
  /\ ~panicked
  /\ Return(Pin_set_level([Heap EXCEPT !.bpin = {p}], p, lv),
            "Pin::set_level", p, lv, "-")

\* pin.borrow_mut().set_mode(m)
PinSetMode(p, m) ==
  /\ ~panicked
  /\ Return(Pin_set_mode([Heap EXCEPT !.bpin = {p}], p, m),
            "Pin::set_mode", p, None, m)

\* pin.borrow_mut().pull_up() / pull_down() / pull_off()
PinPullUp(p) ==
  /\ ~panicked
  /\ Return(Pin_pull(Heap, p, Some(PullUpLevel)), "Pin::pull_up", p, None, "-")

PinPullDown(p) ==
  /\ ~panicked
  /\ Return(Pin_pull(Heap, p, Some(PullDownLevel)), "Pin::pull_down", p, None, "-")

PinPullOff(p) ==
  /\ ~panicked
  /\ Return(Pin_pull(Heap, p, None), "Pin::pull_off", p, None, "-")

\* trace.borrow_mut().set_level(lv)
TraceSetLevel(t, lv) ==
  /\ ~panicked
  /\ Return(Trace_set_level([Heap EXCEPT !.btrace = {t}], t, lv),
            "Trace::set_level", t, lv, "-")

\* trace.borrow_mut().pull_up() / pull_down() / pull_off()
TracePullUp(t) ==
  /\ ~panicked
  /\ Return(Trace_pull([Heap EXCEPT !.btrace = {t}], t, Some(PullUpLevel)),
            "Trace::pull_up", t, None, "-")

TracePullDown(t) ==
  /\ ~panicked
  /\ Return(Trace_pull([Heap EXCEPT !.btrace = {t}], t, Some(PullDownLevel)),
            "Trace::pull_down", t, None, "-")

TracePullOff(t) ==
  /\ ~panicked
  /\ Return(Trace_pull([Heap EXCEPT !.btrace = {t}], t, None),
            "Trace::pull_off", t, None, "-")

Next ==
  \/ \E p \in Harness, lv \in OptLevels : PinSetLevel(p, lv)
  \/ \E p \in Harness : \E m \in HarnessModes(p) : PinSetMode(p, m)
  \/ \E p \in HarnessPulls : PinPullUp(p)
  \/ \E p \in HarnessPulls : PinPullDown(p)
  \/ \E p \in HarnessPulls : PinPullOff(p)
  \/ \E t \in Traces, lv \in OptLevels : TraceSetLevel(t, lv)
  \/ \E t \in Traces : TracePullUp(t)
  \/ \E t \in Traces : TracePullDown(t)
  \/ \E t \in Traces : TracePullOff(t)

Spec == Init /\ [][Next]_vars

\* ------------------------------------------------------------------------
\* Wiring after construction

\* Trace::add_pin: the pin is appended if it is not connected(), that is if
\* its own trace field is None, and the level is recomputed.
Trace_add_pin(k, t, p) ==
  IF p \in k.bpin THEN Panic(k)
  ELSE IF trace[p] # 0 THEN k
  ELSE Trace_set_level([k EXCEPT !.pins[t] = Append(@, p)], t, k.tlevel[t])

\* A call that changes the wiring has ended: the new Pin.trace and
\* Pin.device fields.
Rewire(name, target, other, tr, dev) ==
  /\ trace' = tr
  /\ device' = dev
  /\ notified' = <<>>
  /\ trip' = NoTrip
  /\ op' = [name |-> name, target |-> target, arg |-> None, marg |-> "-",
            other |-> other,
            again |-> (/\ op.name = name /\ op.target = target
                       /\ op.other = other)]
  /\ UNCHANGED <<circuit, mode, level, float, pins, tlevel, tfloat, pushed,
                 panicked, chip>>

\* The call add_pin(p) on trace t has ended (returned or panicked) with
\* heap k.
Added(k, t, p) ==
  /\ mode' = k.mode
  /\ level' = k.level
  /\ float' = k.float
  /\ pins' = k.pins
  /\ tlevel' = k.tlevel
  /\ tfloat' = k.tfloat
  /\ pushed' = k.pushed
  /\ notified' = k.notified
  /\ panicked' = k.panicked
  /\ trip' = NoTrip
  /\ op' = [name |-> "Trace::add_pin", target |-> t, arg |-> None,
            marg |-> "-", other |-> p,
            again |-> (/\ op.name = "Trace::add_pin" /\ op.target = t
                       /\ op.other = p)]
  /\ chip' = k.chip
  /\ UNCHANGED <<circuit, trace, device>>

\* trace.borrow_mut().add_pin(pin)
TraceAddPin(t, p) ==
  /\ ~panicked
  /\ Len(pins[t]) < MaxPins
  /\ Added(Trace_add_pin([Heap EXCEPT !.btrace = {t}], t, p), t, p)

\* pin.borrow_mut().set_trace(trace)
PinSetTrace(p, t) ==
  /\ ~panicked
  /\ Rewire("Pin::set_trace", p, t, [trace EXCEPT ![p] = t], device)

\* pin.borrow_mut().attach(device)
PinAttach(p, d) ==
  /\ ~panicked
  /\ Rewire("Pin::attach", p, d, trace, [device EXCEPT ![p] = d])

\* pin.borrow_mut().detach()
PinDetach(p) ==
  /\ ~panicked
  /\ Rewire("Pin::detach", p, 0, trace, [device EXCEPT ![p] = 0])

\* The pins whose observer the harness changes, and the devices at hand.
Observed == {p \in Pins : Circuits[circuit].device[p] # 0}
Devices == DOMAIN Circuits[circuit].kind

NextWiring ==
  \/ \E t \in Traces, p \in Pins : TraceAddPin(t, p)
  \/ \E p \in Pins, t \in Traces : PinSetTrace(p, t)
  \/ \E p \in Observed, d \in Devices : PinAttach(p, d)
  \/ \E p \in Observed : PinDetach(p)
  \/ \E p \in Harness, lv \in OptLevels : PinSetLevel(p, lv)
  \/ \E t \in Traces, lv \in OptLevels : TraceSetLevel(t, lv)

InitWiring == Start(Wirable)

\* The public calls on a circuit whose pin order is varied.
InitOrder == Start(Reordered)

SpecOrder == InitOrder /\ [][Next]_vars

SpecWiring == InitWiring /\ [][NextWiring]_vars

\* The test of a chip sets the levels of the traces of its input pins.
NextChip == \E t \in Probes, lv \in OptLevels : TraceSetLevel(t, lv)

InitLatch == Start({"latch"})

SpecLatch == InitLatch /\ [][NextChip]_vars

InitSwitch == Start({"switch"})

SpecSwitch == InitSwitch /\ [][NextChip]_vars

InitDram == Start({"dram"})

\* The tests of the memory chip drive its traces with set! and clear!.
NextDram == \E t \in Probes, b \in BOOLEAN : TraceSetLevel(t, Bit(b))

SpecDram == InitDram /\ [][NextDram]_vars

\* Levels of every kind a caller may pass: absent, negative, on either side
\* of one half, one half itself, and above one.
WideLevels ==
  {None} \cup {Some(v) : v \in {PullDownLevel - PullUpLevel, PullDownLevel - 1,
                                PullDownLevel, (PullUpLevel \div 2) - 1,
                                PullUpLevel \div 2, PullUpLevel,
                                PullUpLevel + (PullUpLevel \div 2)}}

\* The circuits on which levels of every kind are set.
Metered == {"bus", "free"}

InitLevels == Start(Metered)

NextLevels ==
  \/ \E p \in Harness, lv \in WideLevels : PinSetLevel(p, lv)
  \/ \E t \in Traces, lv \in WideLevels : TraceSetLevel(t, lv)

SpecLevels == InitLevels /\ [][NextLevels]_vars

TypeOK ==
  /\ mode \in [Pins -> Mode]
  /\ \A p \in Pins : Cardinality(level[p]) <= 1 /\ Cardinality(float[p]) <= 1
  /\ \A t \in Traces : Cardinality(tlevel[t]) <= 1 /\ Cardinality(tfloat[t]) <= 1
  /\ panicked \in BOOLEAN


\* ------------------------------------------------------------------------
\* Vocabulary of the properties

\* The public call op has returned (it did not panic).
Returned(name) == op.name = name /\ ~panicked

\* The pins of trace t.
PinsOf(t) == Range(pins[t])

\* The pins of trace t in Output or Bidirectional mode with a defined level.
OutDrivers(t) == {p \in PinsOf(t) : output(mode[p]) /\ level[p] # None}

\* The pins of trace t in Output mode with a defined level.
OutputPins(t) == {p \in PinsOf(t) : mode[p] = Output /\ level[p] # None}

\* The maximum level among the pins of P (all with a defined level).
MaxLevel(P) == Some(MaxOf(UNION {level[p] : p \in P}))

\* The notifications pin p made during the latest public call.
Notifications(p) == {i \in DOMAIN notified : notified[i][2] = p}

\* ------------------------------------------------------------------------
\* C1.  After any sequence of public calls has returned, every trace with at
\* least one pin in Output or Bidirectional mode holding a defined level
\* has a level equal to the maximum of those pins' levels.
C1_TraceIsMaxOfDrivers ==
  (op.name # "new" /\ ~panicked) =>
    \A t \in Traces : OutDrivers(t) # {} => tlevel[t] = MaxLevel(OutDrivers(t))

\* ------------------------------------------------------------------------
\* C2.  For a connected pin P in Output or Bidirectional mode and a defined
\* value V: after P.set_level(V) has returned, the level of P's trace is V
\* whenever no other pin on that trace holds a defined level higher than V,
\* whatever level P held before.
C2_SetLevelReachesTrace ==
  \A p \in Pins : \A v \in Levels :
    (/\ Returned("Pin::set_level") /\ op.target = p /\ op.arg = Some(v)
     /\ trace[p] # 0 /\ output(mode[p])
     /\ \A q \in PinsOf(trace[p]) \ {p} : \A n \in level[q] : n <= v)
    => tlevel[trace[p]] = Some(v)

\* A driver's set_level has raised the trace above another driver's level.
C2_Witness ==
  \E p \in Pins : \E v \in Levels :
    /\ Returned("Pin::set_level") /\ op.target = p /\ op.arg = Some(v)
    /\ trace[p] # 0 /\ output(mode[p])
    /\ \E q \in PinsOf(trace[p]) \ {p} :
         mode[q] = Output /\ \E n \in level[q] : n < v
    /\ \A q \in PinsOf(trace[p]) \ {p} : \A n \in level[q] : n <= v
    /\ tlevel[trace[p]] = Some(v)

\* ------------------------------------------------------------------------
\* C3.  When a trace is updated from one of its pins (set_level on an Output
\* or Bidirectional pin, or a mode change), every other pin of the trace is
\* handed the trace's newly computed level: after the call every other pin
\* in Input mode has the level normalize(trace level, pin float).
C3_UpdateDeliversAggregate ==
  [][\A p \in Pins :
       (/\ ~panicked' /\ op'.target = p /\ trace[p] # 0
        /\ \/ op'.name = "Pin::set_level" /\ output(mode[p])
           \/ /\ op'.name = "Pin::set_mode"
              /\ \/ output(op'.marg)
                 \/ output(mode[p]) /\ level[p] # None)
       => \A q \in PinsOf(trace[p]) \ {p} :
            mode'[q] = Input
              => level'[q] = normalize(tlevel'[trace[p]], float'[q])]_vars

\* ------------------------------------------------------------------------
\* C4.  After set_mode(Input) has returned on a connected pin, the pin's
\* level is the trace's level as it is after the call, normalized against
\* the pin's float.
C4_InputPinTakesTraceLevel ==
  \A p \in Pins :
    (/\ Returned("Pin::set_mode") /\ op.target = p /\ op.marg = Input
     /\ trace[p] # 0)
    => level[p] = normalize(tlevel[trace[p]], float[p])

\* ------------------------------------------------------------------------
\* C5.  Whenever the only driver of a trace switches to Input, the trace
\* takes its float default and every other Input pin on it follows (as pin
\* B does in the scenario: it goes from 1.0 to absent with the trace).
C5_SoleDriverWithdraws ==
  [][\A p \in Pins :
       (/\ ~panicked' /\ op'.name = "Pin::set_mode" /\ op'.target = p
        /\ op'.marg = Input /\ trace[p] # 0
        /\ OutDrivers(trace[p]) = {p})
       => /\ tlevel'[trace[p]] = tfloat[trace[p]]
          /\ \A q \in PinsOf(trace[p]) \ {p} :
               mode'[q] = Input
                 => level'[q] = normalize(tlevel'[trace[p]], float'[q])]_vars

\* ------------------------------------------------------------------------
\* C6 as claimed.  For every pin P in Input mode, Trace.set_level(V) yields
\* P.level() = V and, if V differs from P's prior level, exactly one
\* notification to P's observer.
C6_DirectSetReachesInput ==
  [][\A t \in Traces : \A p \in PinsOf(t) :
       (/\ ~panicked' /\ op'.name = "Trace::set_level" /\ op'.target = t
        /\ mode[p] = Input /\ device[p] # 0)
       => /\ level'[p] = op'.arg
          /\ op'.arg # level[p] => Cardinality(Notifications(p)') = 1]_vars

\* The level Trace::set_level(t, lv) gives the trace, from the state before
\* the call: the maximum of the Output pins that hold a level, else lv,
\* else the trace's float.
DirectLevel(t, lv) ==
  IF OutputPins(t) # {} THEN MaxLevel(OutputPins(t))
  ELSE normalize(lv, tfloat[t])

\* C6 as amended.  For every pin P in Input mode, Trace.set_level(V) yields
\* P.level() = normalize(L, P.float), L being the level the trace takes (the
\* maximum of its Output pins' defined levels, else V, else the trace's
\* float); P's observer gets exactly one notification when P's level changed
\* and none when it did not.
C6_DirectSetReachesInputAmended ==
  [][\A t \in Traces : \A p \in PinsOf(t) :
       (/\ ~panicked' /\ op'.name = "Trace::set_level" /\ op'.target = t
        /\ mode[p] = Input /\ device[p] # 0)
       => /\ level'[p] = normalize(DirectLevel(t, op'.arg), float[p])
          /\ level'[p] # level[p]
               => /\ Cardinality(Notifications(p)') = 1
                  /\ \A i \in Notifications(p)' : notified'[i][3] = level'[p]
          /\ level'[p] = level[p] => Notifications(p)' = {}]_vars

\* A direct set_level was overridden by an Output pin's level, and an Input
\* pin took that level (not the argument) and notified once.
C6_Witness ==
  \E t \in Traces : \E p \in PinsOf(t) :
    /\ Returned("Trace::set_level") /\ op.target = t
    /\ mode[p] = Input /\ device[p] # 0
    /\ OutputPins(t) # {} /\ level[p] = MaxLevel(OutputPins(t))
    /\ level[p] # op.arg
    /\ Cardinality(Notifications(p)) = 1

C8_NoBorrowConflict == ~panicked

\* ------------------------------------------------------------------------
\* C9.  Trace.set_level(v) on a trace where an Output pin holds a defined
\* level leaves the trace at the maximum such level for every v; when there
\* is no such pin the trace's level becomes v, or the trace's float if v is
\* absent.  The resulting level is delivered to every connected pin: every
\* pin that takes input holds it, normalized against its own float.
C9_DirectSet ==
  \A t \in Traces :
    (Returned("Trace::set_level") /\ op.target = t)
    => /\ tlevel[t] = IF OutputPins(t) # {} THEN MaxLevel(OutputPins(t))
                      ELSE normalize(op.arg, tfloat[t])
       /\ \A p \in PinsOf(t) :
            input(mode[p]) => level[p] = normalize(tlevel[t], float[p])

\* A direct set_level with a value above the drivers' maximum left the trace
\* at that maximum, and an Input pin holds it.
C9_Witness ==
  \E t \in Traces :
    /\ Returned("Trace::set_level") /\ op.target = t
    /\ OutputPins(t) # {}
    /\ \E v \in op.arg : \A n \in MaxLevel(OutputPins(t)) : v > n
    /\ tlevel[t] = MaxLevel(OutputPins(t))
    /\ \E p \in PinsOf(t) : mode[p] = Input /\ level[p] = tlevel[t]

SoleBidirectional(t) ==
  {p \in PinsOf(t) : PinsOf(t) = {p} /\ mode[p] = Bidirectional}

\* C11 as claimed.  On a trace whose only connected pin is Bidirectional, a
\* direct Trace.set_level(v) sets both the trace's level and the pin's level
\* to v, also when the pin held a different defined level before; with v
\* absent both become floating.
C11_SoleBidirectionalTakesValue ==
  [][\A t \in Traces : \A p \in SoleBidirectional(t) :
       (~panicked' /\ op'.name = "Trace::set_level" /\ op'.target = t)
       => tlevel'[t] = op'.arg /\ level'[p] = op'.arg]_vars

\* C11 as amended.  On a trace whose only connected pin is Bidirectional, a
\* direct Trace.set_level(v) with v defined sets both the trace's level and
\* the pin's level to v, also when the pin held a different defined level
\* before; with v absent the trace takes its float default and the pin that
\* level normalized against its own float, so that both become floating
\* when neither is pulled.
C11_SoleBidirectionalFollows ==
  [][\A t \in Traces : \A p \in SoleBidirectional(t) :
       (~panicked' /\ op'.name = "Trace::set_level" /\ op'.target = t)
       => /\ tlevel'[t] = normalize(op'.arg, tfloat[t])
          /\ level'[p] = normalize(tlevel'[t], float[p])
          /\ op'.arg # None => tlevel'[t] = op'.arg /\ level'[p] = op'.arg
          /\ (op'.arg = None /\ tfloat[t] = None /\ float[p] = None)
               => tlevel'[t] = None /\ level'[p] = None]_vars

\* A direct set_level with a defined value has replaced the different level
\* the only, Bidirectional, pin of the trace held (the pin notified).
C11_Witness ==
  \E t \in Traces : \E p \in SoleBidirectional(t) :
    /\ Returned("Trace::set_level") /\ op.target = t /\ op.arg # None
    /\ tlevel[t] = op.arg /\ level[p] = op.arg
    /\ \E i \in Notifications(p) : notified[i][3] = op.arg

CalledOn(p) ==
  /\ op.target = p
  /\ op.name \in {"Pin::set_level", "Pin::set_mode", "Pin::pull_up",
                  "Pin::pull_down", "Pin::pull_off"}

\* C13.  A pin notifies its observer exactly when it is in Input or
\* Bidirectional mode and the value its trace delivers, normalized against
\* the pin's float, differs from the pin's level: during a public call an
\* observed pin whose level the trace changed notifies exactly once, the
\* level read through the event is the new level, and a pin whose level did
\* not change or that does not take input notifies nobody.
C13_NotifiesExactlyOnChange ==
  [][~panicked' =>
       \A p \in Pins :
         device[p] # 0 =>
           /\ Notifications(p)' # {}
                => /\ input(mode'[p])
                   /\ level'[p] # level[p]
                   /\ Cardinality(Notifications(p)') = 1
                   /\ \A i \in Notifications(p)' : notified'[i][3] = level'[p]
           /\ (level'[p] # level[p] /\ ~CalledOn(p)')
                => Notifications(p)' # {}]_vars

\* A pin-originated update changed the level of an observed Bidirectional
\* pin, which notified once with its new level, while an observed Input pin
\* on the same trace already held the value and stayed silent.
C13_Witness ==
  \E p, q \in Pins :
    /\ Returned("Pin::set_level") /\ op.target \notin {p, q}
    /\ trace[p] = trace[q] /\ trace[p] = trace[op.target]
    /\ mode[p] = Bidirectional /\ device[p] # 0
    /\ Cardinality(Notifications(p)) = 1
    /\ \A i \in Notifications(p) : notified[i][3] = level[p]
    /\ mode[q] = Input /\ device[q] # 0 /\ Notifications(q) = {}
    /\ level[q] = level[p]

C15_ModeRoundTrip ==
  (trip.stage = 3 /\ ~panicked) => tlevel[trace[trip.pin]] = trip.v

\* The round trip has been made on a trace that floated in between: the
\* trace is back at V, and an observed Input pin on it has followed.
C15_Witness ==
  /\ trip.stage = 3 /\ ~panicked
  /\ Returned("Pin::set_level") /\ op.target = trip.pin
  /\ tlevel[trace[trip.pin]] = trip.v
  /\ tfloat[trace[trip.pin]] # trip.v
  /\ \E q \in Pins \ {trip.pin} :
       /\ trace[q] = trace[trip.pin] /\ mode[q] = Input
       /\ level[q] = trip.v

C17_UnconnectedKeepsLevel ==
  [][\A p \in Pins :
       (/\ ~panicked' /\ op'.name = "Pin::set_mode" /\ op'.target = p
        /\ op'.marg = Unconnected /\ trace[p] # 0)
       => LET t == trace[p]
              others == OutputPins(t) \ {p}
          IN /\ level'[p] = level[p]
             /\ (output(mode[p]) /\ level[p] # None)
                  => tlevel'[t] = IF others # {} THEN MaxLevel(others)
                                  ELSE tfloat[t]
             /\ mode[p] = Input => tlevel'[t] = tlevel[t]]_vars

\* The only driver of a trace became Unconnected: it kept its level, the
\* trace went to its float and an observed Input pin was told.
C17_Witness ==
  \E p \in Pins : \E q \in Pins \ {p} :
    /\ Returned("Pin::set_mode") /\ op.target = p /\ op.marg = Unconnected
    /\ trace[p] # 0 /\ trace[q] = trace[p]
    /\ level[p] # None /\ tlevel[trace[p]] # level[p]
    /\ OutputPins(trace[p]) = {} /\ tlevel[trace[p]] = tfloat[trace[p]]
    /\ mode[q] = Input /\ Notifications(q) # {}

\* ------------------------------------------------------------------------
\* C18.  A change of a trace's level, whether set directly or caused by
\* another pin, never changes the level of a connected pin in Output or
\* Unconnected mode and never notifies that pin's device: over a public
\* call that is not a call on the pin itself, such a pin (the output pin of
\* a chip aside, which the chip's own logic sets) keeps its level and
\* notifies nobody.
C18_OutputPinsIgnoreTrace ==
  [][~panicked' =>
       \A q \in Pins :
         (/\ trace[q] # 0 /\ mode[q] \in {Output, Unconnected}
          /\ ~CalledOn(q)'
          /\ \A a \in Pins : output_for(a) # q)
         => level'[q] = level[q] /\ Notifications(q)' = {}]_vars

\* A pin's set_level raised a trace above the level of an observed Output
\* pin, which kept its level silently, while a pin of the trace that takes
\* input notified.
C18_Witness ==
  \E p \in Pins : \E q, r \in Pins \ {p} :
    /\ Returned("Pin::set_level") /\ op.target = p
    /\ trace[p] # 0 /\ trace[q] = trace[p] /\ trace[r] = trace[p]
    /\ tlevel[trace[p]] = op.arg /\ op.arg # None
    /\ mode[q] = Output /\ device[q] # 0
    /\ level[q] # None /\ level[q] # tlevel[trace[p]]
    /\ Notifications(q) = {}
    /\ input(mode[r]) /\ Notifications(r) # {}

C21_UnconnectedIsolated ==
  [][\A p \in Pins :
       (/\ ~panicked' /\ op'.name = "Pin::set_level" /\ op'.target = p
        /\ trace[p] # 0 /\ mode[p] = Unconnected)
       => /\ level' = [level EXCEPT ![p] = normalize(op'.arg, float[p])]
          /\ tlevel' = tlevel /\ mode' = mode /\ float' = float
          /\ notified' = <<>>]_vars

\* A connected Unconnected pin was set to a defined level that neither its
\* trace nor an Input pin on that trace holds.
C21_Witness ==
  \E p \in Pins : \E q \in Pins \ {p} :
    /\ Returned("Pin::set_level") /\ op.target = p /\ op.arg # None
    /\ trace[p] # 0 /\ mode[p] = Unconnected /\ level[p] = op.arg
    /\ tlevel[trace[p]] # op.arg
    /\ trace[q] = trace[p] /\ mode[q] = Input /\ level[q] # op.arg

\* ------------------------------------------------------------------------
\* C22.  Pin float: for a pin with pull_up() applied every operation that
\* would give it an absent level yields 1.0, with pull_down() 0.0 and with
\* pull_off() absent: set_level(absent) on a pin that accepts set_level
\* yields the pin's float, a trace that delivers absent to an Input or
\* Bidirectional pin leaves it at its float, and a pulled pin never floats.
\* A defined requested or delivered level is never replaced by the float.
C22_PinFloat ==
  [][~panicked' =>
       \A p \in Pins :
         /\ float'[p] # None => level'[p] # None
         /\ (/\ op'.name = "Pin::set_level" /\ op'.target = p
             /\ (trace[p] = 0 \/ mode[p] # Input))
            => level'[p] = IF op'.arg = None THEN float[p] ELSE op'.arg
         /\ (/\ op'.name \in {"Trace::set_level", "Trace::pull_up",
                               "Trace::pull_down", "Trace::pull_off"}
             /\ trace[p] = op'.target /\ input(mode[p]))
            => level'[p] = IF tlevel'[trace[p]] = None THEN float[p]
                           ELSE tlevel'[trace[p]]
         /\ \A q \in Pins \ {p} :
              (/\ op'.name = "Pin::set_level" /\ op'.target = q
               /\ trace[q] # 0 /\ trace[p] = trace[q]
               /\ output(mode[q]) /\ input(mode[p]))
              => level'[p] = IF normalize(op'.arg, float[q]) = None
                             THEN float[p]
                             ELSE normalize(op'.arg, float[q])]_vars

\* A driver was set to absent and handed that to a pulled-up Bidirectional
\* pin on its trace: the pin is at 1.0 while the trace floats.
C22_Witness ==
  \E p \in Pins : \E q \in Pins \ {p} :
    /\ Returned("Pin::set_level") /\ op.target = q /\ op.arg = None
    /\ trace[q] # 0 /\ trace[p] = trace[q] /\ mode[q] = Output
    /\ level[q] = None /\ tlevel[trace[q]] = None
    /\ mode[p] = Bidirectional /\ float[p] = Some(PullUpLevel)
    /\ level[p] = Some(PullUpLevel)
    /\ Notifications(p) # {}

\* ------------------------------------------------------------------------
\* The level of trace t once it is recomputed with no incoming level and
\* without pin p: the maximum of the other Output pins' defined levels, else
\* the trace's float.
Withdrawn(t, p) ==
  IF OutputPins(t) \ {p} # {} THEN MaxLevel(OutputPins(t) \ {p})
  ELSE tfloat[t]

\* C23.  Trace float: for a trace with pull_up() applied, setting its level
\* to absent (directly, or by its last driver withdrawing) yields 1.0, with
\* pull_down() 0.0 and with pull_off() absent, provided no Output pin on
\* the trace holds a defined level; when some Output pin does, the trace's
\* level is the maximum such level whatever the pull.  pull_up / pull_down
\* take effect at once on a trace whose level is absent.
C23_TraceFloat ==
  [][~panicked' =>
       \A t \in Traces :
         /\ (op'.name = "Trace::set_level" /\ op'.target = t /\ op'.arg = None)
            => tlevel'[t] = Withdrawn(t, 0)
         /\ \A p \in PinsOf(t) :
              (/\ op'.target = p /\ trace[p] = t /\ output(mode[p])
               /\ \/ /\ op'.name = "Pin::set_level"
                     /\ normalize(op'.arg, float[p]) = None
                  \/ /\ op'.name = "Pin::set_mode" /\ ~output(op'.marg)
                     /\ level[p] # None)
              => tlevel'[t] = Withdrawn(t, p)
         /\ (/\ op'.name \in {"Trace::pull_up", "Trace::pull_down",
                               "Trace::pull_off"}
             /\ op'.target = t)
            => /\ tfloat'[t] = CASE op'.name = "Trace::pull_up" -> Some(PullUpLevel)
                                 [] op'.name = "Trace::pull_down" -> Some(PullDownLevel)
                                 [] OTHER -> None
               /\ tlevel'[t] = IF OutputPins(t) # {} THEN MaxLevel(OutputPins(t))
                                ELSE normalize(tlevel[t], tfloat'[t])]_vars

\* The last driver of a pulled-down trace left Output mode: the trace is at
\* 0.0, below the level the driver held.
C23_Witness ==
  \E p \in Pins :
    /\ Returned("Pin::set_mode") /\ op.target = p /\ ~output(op.marg)
    /\ trace[p] # 0 /\ OutputPins(trace[p]) = {}
    /\ tfloat[trace[p]] = Some(PullDownLevel)
    /\ tlevel[trace[p]] = Some(PullDownLevel)
    /\ pushed[trace[p]] = None
    /\ \E v \in level[p] : v > PullDownLevel

\* ------------------------------------------------------------------------
\* Pin p is associated with a trace: its trace field is set, or a trace has
\* it in its membership.
Associated(p) == trace[p] # 0 \/ \E u \in Traces : p \in PinsOf(u)

\* C24.  Trace.add_pin(p) appends p to the trace's membership only if p is
\* not already associated with a trace, and then recomputes the trace's
\* level so that it includes p; if p is already wired the call is a silent
\* no-op that changes neither the membership nor any level.
C24_AddPinOnlyIfFree ==
  [][\A t \in Traces : \A p \in Pins :
       (/\ ~panicked' /\ op'.name = "Trace::add_pin"
        /\ op'.target = t /\ op'.other = p)
       => IF Associated(p)
          THEN pins' = pins /\ level' = level /\ tlevel' = tlevel
          ELSE /\ pins' = [pins EXCEPT ![t] = Append(@, p)]
               /\ tlevel'[t] = IF OutputPins(t)' # {}
                                THEN MaxLevel(OutputPins(t))'
                                ELSE normalize(tlevel[t], tfloat[t])]_vars

\* ------------------------------------------------------------------------
\* C25.  A pin's trace link is permanent: once a pin has been associated
\* with a trace, no call (set_trace, add_pin, set_level, attach, ...)
\* reassigns it to another trace or clears it.
C25_TraceLinkPermanent ==
  [][\A p \in Pins : trace[p] # 0 => trace'[p] = trace[p]]_vars

\* ------------------------------------------------------------------------
\* C26.  A trace created from a list of pins has an initial level that
\* depends on the levels of the Output pins in that list: the maximum
\* defined level among them, and absent if there are none; its initial
\* float is absent.
C26_NewTraceTakesOutputLevels ==
  op.name = "new" =>
    \A t \in Traces :
      /\ tlevel[t] = IF OutputPins(t) # {} THEN MaxLevel(OutputPins(t))
                      ELSE None
      /\ tfloat[t] = None

\* ------------------------------------------------------------------------
\* The orders in which the pins of list s can be listed.
Orders(s) ==
  {[i \in DOMAIN s |-> s[f[i]]] :
     f \in {g \in [DOMAIN s -> DOMAIN s] :
              \A i, j \in DOMAIN s : g[i] = g[j] => i = j}}

\* The memberships that differ from the present one in the order of the
\* pins of one trace.
Memberships ==
  UNION {{[pins EXCEPT ![t] = q] : q \in Orders(pins[t]) \ {pins[t]}} :
           t \in Traces}

\* What a call leaves behind in heap k: whether it panicked, and the fields
\* of the pins and traces.
Outcome(k) == <<k.panicked, k.mode, k.level, k.float, k.tlevel, k.tfloat>>

\* The public call o made on heap k.
Call(k, o) ==
  CASE o.name = "Pin::set_level" ->
         Pin_set_level([k EXCEPT !.bpin = {o.target}], o.target, o.arg)
    [] o.name = "Pin::set_mode" ->
         Pin_set_mode([k EXCEPT !.bpin = {o.target}], o.target, o.marg)
    [] o.name = "Pin::pull_up" -> Pin_pull(k, o.target, Some(PullUpLevel))
    [] o.name = "Pin::pull_down" -> Pin_pull(k, o.target, Some(PullDownLevel))
    [] o.name = "Pin::pull_off" -> Pin_pull(k, o.target, None)
    [] o.name = "Trace::set_level" ->
         Trace_set_level([k EXCEPT !.btrace = {o.target}], o.target, o.arg)
    [] o.name = "Trace::pull_up" ->
         Trace_pull([k EXCEPT !.btrace = {o.target}], o.target, Some(PullUpLevel))
    [] o.name = "Trace::pull_down" ->
         Trace_pull([k EXCEPT !.btrace = {o.target}], o.target, Some(PullDownLevel))
    [] o.name = "Trace::pull_off" ->
         Trace_pull([k EXCEPT !.btrace = {o.target}], o.target, None)

\* Every device of the circuit only observes (it is a TestDevice).
OnlyObservers == \A d \in DOMAIN Circuits[circuit].kind : kind(d) = "TestDevice"

\* C27.  Results are deterministic and independent of membership order: in
\* a circuit whose devices only observe, every public call made on the
\* same pins and traces with the pins of a trace listed in any other order
\* ends the same way, with the same trace levels and pin levels.
C27_OrderIndependent ==
  [][OnlyObservers =>
       \A m \in Memberships :
         Outcome(Call([Heap EXCEPT !.pins = m], op'))
           = <<panicked', mode', level', float', tlevel', tfloat'>>]_vars

\* A direct set_level on a trace with three different pins, two of them
\* Output pins that hold different levels: the trace and the observed Input
\* pin are at the higher one, whichever driver is listed first.
C27_Witness ==
  \E t \in Traces : \E a, b, c \in PinsOf(t) :
    /\ Returned("Trace::set_level") /\ op.target = t /\ OnlyObservers
    /\ Memberships # {}
    /\ mode[a] = Output /\ mode[b] = Output /\ mode[c] = Input
    /\ \E x \in level[a] : \E y \in level[b] : x < y
    /\ tlevel[t] = level[b] /\ level[c] = level[b]

\* ------------------------------------------------------------------------
\* The circuit has true combinational feedback: an output pin of a device
\* sits on the trace of the input pin it is computed from.
Feedback ==
  \E a \in Pins :
    /\ output_for(a) # 0 /\ trace[a] # 0
    /\ trace[output_for(a)] = trace[a]

\* C28.  In a circuit with true combinational feedback a single external
\* change makes the propagation recurse without bound: the chain of nested
\* calls never comes to an end, so no public call is ever over.
C28_FeedbackNeverEnds ==
  Feedback => op.name = "new"

ListedTwice(t, p) ==
  \E i, j \in DOMAIN pins[t] : i # j /\ pins[t][i] = p /\ pins[t][j] = p

\* C30.  A pin that was supplied twice to the same trace still gets exactly
\* one notification per change of the trace's level: its device is called
\* once with the new level, and in no call more than once.
C30_ListedTwiceNotifiedOnce ==
  [][~panicked' =>
       \A t \in Traces : \A p \in PinsOf(t) :
         (ListedTwice(t, p) /\ mode[p] = Input /\ device[p] # 0)
         => /\ Cardinality(Notifications(p)') <= 1
            /\ tlevel'[t] # tlevel[t]
                 => /\ Cardinality(Notifications(p)') = 1
                    /\ \A i \in Notifications(p)' :
                         notified'[i][3] = tlevel'[t]]_vars

\* A direct set_level changed the level of a trace that lists its Input pin
\* twice: the pin holds the level and its device was called once.
C30_Witness ==
  \E t \in Traces : \E p \in PinsOf(t) :
    /\ Returned("Trace::set_level") /\ op.target = t /\ op.arg # None
    /\ ListedTwice(t, p) /\ mode[p] = Input /\ device[p] # 0
    /\ level[p] = op.arg /\ tlevel[t] = op.arg
    /\ Len(notified) = 1 /\ notified[1] = <<device[p], p, op.arg>>

\* ------------------------------------------------------------------------
\* The float a pull call stores.
PullOf(name) ==
  CASE name = "Pin::pull_up" -> Some(PullUpLevel)
    [] name = "Pin::pull_down" -> Some(PullDownLevel)
    [] OTHER -> None

\* C38.  Pin::pull_up / pull_down / pull_off change only the pin's float
\* and, when the pin's level is absent, the pin's own level (to the new
\* float): a level that is defined stays, the trace of the pin, every other
\* pin and every mode stay, and no device is notified, in every mode.
C38_PullChangesOnlyThePin ==
  [][\A p \in Pins :
       (/\ ~panicked' /\ op'.target = p
        /\ op'.name \in {"Pin::pull_up", "Pin::pull_down", "Pin::pull_off"})
       => /\ float' = [float EXCEPT ![p] = PullOf(op'.name)]
          /\ level' = [level EXCEPT
                         ![p] = IF level[p] = None THEN PullOf(op'.name)
                                ELSE level[p]]
          /\ mode' = mode /\ tlevel' = tlevel /\ tfloat' = tfloat
          /\ pins' = pins /\ trace' = trace
          /\ notified' = <<>>]_vars

\* pull_down was called on a connected, observed pin that held a defined
\* level above the pull: the level stayed, and so did the trace.
C38_Witness ==
  \E p \in Pins :
    /\ Returned("Pin::pull_down") /\ op.target = p
    /\ trace[p] # 0 /\ device[p] # 0
    /\ float[p] = Some(PullDownLevel)
    /\ level[p] = Some(PullUpLevel)
    /\ notified = <<>>

\* ------------------------------------------------------------------------
\* C39.  The pin that originates a change is never notified of it: a
\* set_level or a set_mode called on a connected pin makes no notification
\* from that pin to its device, and the trace does not hand its value back
\* to the pin: after set_level on a pin that drives (Output or
\* Bidirectional) the pin holds the value it was given, normalized, and
\* after set_mode to a mode other than Input (where the pin itself reads
\* the trace) it holds the level it had.
C39_OriginNotNotified ==
  [][\A p \in Pins :
       (/\ ~panicked' /\ op'.target = p /\ trace[p] # 0
        /\ op'.name \in {"Pin::set_level", "Pin::set_mode"})
       => /\ Notifications(p)' = {}
          /\ (op'.name = "Pin::set_level" /\ output(mode[p]))
               => level'[p] = normalize(op'.arg, float[p])
          /\ (op'.name = "Pin::set_mode" /\ op'.marg # Input)
               => level'[p] = level[p]]_vars

\* A Bidirectional, observed pin was set below the level its trace holds
\* from an Output pin: the trace kept the higher level, the pin holds the
\* value it was given and its device was not notified.
C39_Witness ==
  \E p \in Pins :
    /\ Returned("Pin::set_level") /\ op.target = p /\ op.arg # None
    /\ trace[p] # 0 /\ mode[p] = Bidirectional /\ device[p] # 0
    /\ level[p] = op.arg
    /\ tlevel[trace[p]] # None /\ tlevel[trace[p]] # op.arg
    /\ Notifications(p) = {}

\* ------------------------------------------------------------------------
\* The two sides of the wiring agree: a pin is in the membership of a trace
\* exactly when its own trace link is that trace, and it is there once.
Consistent ==
  /\ \A t \in Traces : \A p \in Pins : p \in PinsOf(t) <=> trace[p] = t
  /\ \A t \in Traces : \A i, j \in DOMAIN pins[t] :
       pins[t][i] = pins[t][j] => i = j

\* C40.  Wiring stays consistent: add_pin on a consistent wiring leaves a
\* consistent wiring, so that the pin it added reports connected() and is
\* not added again.
C40_AddPinKeepsWiringConsistent ==
  [][(/\ ~panicked' /\ op'.name = "Trace::add_pin" /\ Consistent)
       => Consistent']_vars

\* ------------------------------------------------------------------------
\* C37.  In a circuit without combinational feedback every external
\* operation terminates: the chain of nested calls is finite and control
\* returns to the caller, so no public call ends in a panic.
C37_AcyclicCallReturns ==
  ~Feedback => ~panicked

\* ------------------------------------------------------------------------
\* The levels held by the pins and the traces.
HeldLevels == {level[p] : p \in Pins} \cup {tlevel[t] : t \in Traces}

\* C31.  For every level of a pin or a trace exactly one of high(), low(),
\* floating() is true: high iff the level is defined and at least one half,
\* low iff it is defined and below one half (negative values included),
\* floating iff it is absent.
C31_HighLowFloating ==
  \A lv \in HeldLevels :
    /\ high(lv) <=> (lv # None /\ \A n \in lv : 2 * n >= PullUpLevel)
    /\ low(lv) <=> (lv # None /\ \A n \in lv : 2 * n < PullUpLevel)
    /\ floating(lv) <=> lv = None
    /\ Cardinality({b \in {"high", "low", "floating"} :
                      \/ b = "high" /\ high(lv)
                      \/ b = "low" /\ low(lv)
                      \/ b = "floating" /\ floating(lv)}) = 1

\* A pin holds a negative level, which is low, while its trace holds one
\* half exactly, which is high.
C31_Witness ==
  \E p \in Pins :
    /\ trace[p] # 0
    /\ \E n \in level[p] : n < PullDownLevel
    /\ low(level[p]) /\ ~high(level[p])
    /\ tlevel[trace[p]] = Some(PullUpLevel \div 2)
    /\ high(tlevel[trace[p]]) /\ ~low(tlevel[trace[p]])

\* ------------------------------------------------------------------------
\* The output pins of the chip under test.
OUTPUTS == {output_for(INPUTS[i]) : i \in DOMAIN INPUTS}

\* C32.  74373, output enable: whenever OE is high, every output Q is
\* floating, whatever LE and the D inputs do.
C32_DisabledOutputsFloat ==
  (~panicked /\ high(level[Named("OE")]))
    => \A q \in OUTPUTS : floating(level[q])

\* ------------------------------------------------------------------------
\* C33.  74373, latching: while LE is low and OE is low, every output Qn
\* holds the value Dn had when LE last went from high to low (high if Dn
\* was high, low otherwise), whatever Dn has done since and also after OE
\* went high and came back low in between.
C33_LatchHolds ==
  (/\ ~panicked /\ chip.fell # <<>>
   /\ low(level[Named("LE")]) /\ low(level[Named("OE")]))
    => \A i \in DOMAIN INPUTS :
         level[output_for(INPUTS[i])] = Bit(chip.fell[i])

\* ------------------------------------------------------------------------
\* The other data pin of the switch.
Across(p) == IF p = Named("A") THEN Named("B") ELSE Named("A")

\* The latest call set the level of the trace of pin p.
SetOn(p) == op.name = "Trace::set_level" /\ op.target = trace[p]

\* C36: while the control pin X of a 4066 switch is high, a level change on
\* one data pin changes neither the other data pin nor its trace; when X
\* goes from high to low both data pins (and their traces) take the level of
\* the data pin that changed last, 0.0 when none ever changed; and while X
\* is low a change of one data pin is mirrored on the other.
C36_SwitchPassesWhenLow ==
  [][\A p \in {Named("A"), Named("B")} :
       /\ (/\ ~panicked' /\ SetOn(p)'
           /\ high(level[Named("X")]) /\ high(level'[Named("X")]))
          => /\ tlevel'[trace[Across(p)]] = tlevel[trace[Across(p)]]
             /\ level'[Across(p)] = level[Across(p)]
       /\ (/\ ~panicked' /\ high(level[Named("X")]) /\ low(level'[Named("X")]))
          => LET v == IF chip.changed = 0 THEN Some(PullDownLevel)
                      ELSE level[chip.changed]
             IN /\ level'[p] = v
                /\ tlevel'[trace[p]] = v
       /\ (/\ ~panicked' /\ SetOn(p)' /\ level'[p] # level[p]
           /\ low(level[Named("X")]) /\ low(level'[Named("X")]))
          => /\ level'[Across(p)] = level'[p]
             /\ tlevel'[trace[Across(p)]] = tlevel'[trace[p]]]_vars

\* X has just gone from high to low after B was the last data pin to change, and
\* both data pins hold B's high level.
C36_Witness ==
  /\ ~panicked /\ SetOn(Named("X")) /\ ~op.again
  /\ chip.closed /\ chip.changed = Named("B")
  /\ mode[Named("A")] = Bidirectional /\ mode[Named("B")] = Bidirectional
  /\ level[Named("A")] = Some(PullUpLevel)
  /\ tlevel[trace[Named("B")]] = Some(PullUpLevel)

\* ------------------------------------------------------------------------
\* C34: whatever levels RAS, CAS and WE of a 4164 are given, resolve is
\* never called while the latched row or the latched column is absent.
C34_ResolveHasRowAndCol == circuit = "dram" => ~chip.fault

\* The row and the column that the memory chip has latched.
Latched ==
  <<CHOOSE r \in chip.row : TRUE, CHOOSE c \in chip.col : TRUE>>

=============================================================================
